---- MODULE Spec2Model ----
(***************************************************************************)
(* A model of the MusicGen HTTP gateway (src/src/server.ts).               *)
(*                                                                         *)
(* Every request is a little process living in a slot: it is received,     *)
(* passes the authentication guard when its route has one, and then runs   *)
(* its handler one await at a time.  The relational store (users, tracks,  *)
(* published_tracks, track_likes) and the generation vendor are external;  *)
(* every call to them either succeeds or returns an error, and the client  *)
(* library returns errors as values (it does not throw).                   *)
(***************************************************************************)
EXTENDS Integers, Sequences, FiniteSets, TLC

VARIABLES
    users,          \* store table users: id -> row (a missing id has no row)
    tracks,         \* store table tracks: id -> row
    nextTrackId,    \* the id the store gives the next inserted track
    published,      \* store table published_tracks, in insertion order
    now,            \* the store's clock, stamped on published_tracks rows
    trackLikes,     \* store table track_likes: set of <<user_id, track_id>>
    vendorTasks,    \* generation tasks created at the vendor: task id -> user
    req,            \* the requests in flight, one per slot
    served,         \* number of requests received so far
    users0,         \* history: the users table at the start
    writeErrors     \* history: some store write has returned an error

vars == <<users, tracks, nextTrackId, published, now, trackLikes, vendorTasks,
          req, served, users0, writeErrors>>

-----------------------------------------------------------------------------
(* Bounds of the model *)

MaxInflight == 2
MaxRequests == 2
MaxTracks == 2
MaxPublished == 2

Slots == 1..MaxInflight
UserIds == {"u1", "u2"}
TrackIds == 1..MaxTracks

-----------------------------------------------------------------------------
(* Routes *)

R_GENERATE == "POST /api/generate-music"
R_TASK     == "GET /api/task/:taskId"
R_SAVE     == "POST /api/tracks"
R_LIST     == "GET /api/tracks"
R_PROFILE  == "GET /api/profile"
R_PATCH    == "PATCH /api/profile"
R_FEED     == "GET /api/feed"
R_PUBLISH  == "POST /api/tracks/:trackId/publish"
R_LIKE     == "POST /api/tracks/:trackId/like"
R_DELETE   == "DELETE /api/tracks/:trackId"

GenRoutes == {R_GENERATE, R_PROFILE, R_PATCH}
TrackRoutes == {R_SAVE, R_LIST, R_FEED, R_PUBLISH, R_LIKE, R_DELETE}
Routes == GenRoutes \cup TrackRoutes \cup {R_TASK}

\* (faulty variant: GET /api/tracks registered without the middleware)
RequiresAuthNotOnList(route) == route \in Routes \ {R_FEED, R_LIST}

\* The routes registered with the authenticateUser middleware: every route
\* but the public feed.
RequiresAuth(route) == route \in Routes \ {R_FEED}

\* Where a route's handler starts.
EntryPc(route) ==
    CASE route = R_GENERATE -> "gen_read"
      [] route = R_TASK     -> "task_vendor"
      [] route = R_SAVE     -> "save_insert"
      [] route = R_LIST     -> "list_read"
      [] route = R_PROFILE  -> "profile_read"
      [] route = R_PATCH    -> "patch_update"
      [] route = R_FEED     -> "feed_read"
      [] route = R_PUBLISH  -> "pub_read"
      [] route = R_LIKE     -> "like_read"
      [] route = R_DELETE   -> "del_read"

-----------------------------------------------------------------------------
(* The Authorization header and the identity provider *)

NoHeader == [present |-> FALSE, scheme |-> "", token |-> ""]
Header(scheme, token) == [present |-> TRUE, scheme |-> scheme, token |-> token]

\* The header values requests are sent with: none, another scheme, a bearer
\* token of each user, and a bearer token the provider does not know.
ValidHeaders == {Header("Bearer ", "tok_u1"), Header("Bearer ", "tok_u2")}
Headers == {NoHeader, Header("Basic ", "tok_u1"), Header("Bearer ", "expired")}
           \cup ValidHeaders

\* !authHeader || !authHeader.startsWith('Bearer ')
NoToken(h) == ~h.present \/ h.scheme # "Bearer "

\* authHeader.split('Bearer ')[1]
Token(h) == IF h.scheme = "Bearer " THEN h.token ELSE ""

\* supabase.auth.getUser(token): the set holding the token's user, or empty.
GetUser(token) ==
    IF token = "tok_u1" THEN {"u1"}
    ELSE IF token = "tok_u2" THEN {"u2"}
    ELSE {}

-----------------------------------------------------------------------------
(* Plans and daily limits *)

DAILY_LIMITS == [free |-> 2, starter |-> 10, pro |-> 25, unlimited |-> 100]

\* Property names every JavaScript object literal inherits from
\* Object.prototype: DAILY_LIMITS[name] is then a function or an object,
\* which is truthy, so "|| 2" does not apply, and which compares as NaN.
ObjectPrototypeKeys == {"constructor", "toString", "valueOf", "hasOwnProperty",
                        "__proto__"}

\* DAILY_LIMITS[user.current_plan] || 2
\* num is FALSE when the value found is not a number.
LookupLimit(plan) ==
    IF plan \in DOMAIN DAILY_LIMITS
    THEN [num |-> TRUE, val |-> DAILY_LIMITS[plan]]
    ELSE IF plan \in ObjectPrototypeKeys
         THEN [num |-> FALSE, val |-> 0]
         ELSE [num |-> TRUE, val |-> 2]

\* user.used_points_today >= limit  (a comparison with NaN is false)
DailyLimitReached(row) ==
    LET limit == LookupLimit(row.current_plan)
    IN  limit.num /\ row.used_points_today >= limit.val

\* (faulty variant: < instead of <=)
NoCreditsStrict(row) == row.total_points < 0

\* user.total_points <= 0
NoCredits(row) == row.total_points <= 0

-----------------------------------------------------------------------------
(* Rows and request bodies *)

UserRow(plan, total, used) ==
    [email |-> "user@example.com", current_plan |-> plan,
     total_points |-> total, used_points_today |-> used,
     total_generations |-> used, display_name |-> "anon"]

UserColumns == {"id", "email", "current_plan", "total_points",
                "used_points_today", "total_generations", "display_name"}

EmptyBody == [f \in {} |-> 0]

\* Bodies of PATCH /api/profile.
PatchBodies == {
    [display_name |-> "neo"],
    [total_points |-> 99, used_points_today |-> 0, display_name |-> "trinity"],
    [id |-> "u2", email |-> "evil@example.com", current_plan |-> "unlimited"],
    [nickname |-> "x", display_name |-> "morpheus"] }

\* The fields PATCH /api/profile deletes from the body.
ProtectedFields == {"id", "email", "total_points", "used_points_today"}

\* (faulty variant: the two credit fields are not deleted)
StripLeavesCredits(body) ==
    [f \in DOMAIN body \ {"id", "email"} |-> body[f]]

\* const updates = { ...req.body }; delete updates.id; ... (4 deletes)
Strip(body) == [f \in DOMAIN body \ ProtectedFields |-> body[f]]

\* .update(updates) on one row: the columns named are overwritten.
ApplyUpdate(row, updates) ==
    [f \in DOMAIN row |-> IF f \in DOMAIN updates THEN updates[f] ELSE row[f]]

\* The store rejects an update naming a column the table does not have.
UpdateAccepted(updates) == DOMAIN updates \subseteq UserColumns

-----------------------------------------------------------------------------
(* Requests *)

Idle == [pc |-> "idle", route |-> "", header |-> NoHeader, tid |-> 0,
         body |-> EmptyBody, user |-> "", status |-> 0, resp |-> EmptyBody,
         read |-> EmptyBody, taskId |-> 0, storeCalls |-> 0, vendorCalls |-> 0]

NewRequest(route, h, tid, body) ==
    [Idle EXCEPT !.pc = IF RequiresAuth(route) THEN "auth" ELSE EntryPc(route),
                 !.route = route, !.header = h, !.tid = tid, !.body = body]

\* res.status(code).json(payload); return
\* The handler's locals die with it: the slot keeps what was asked and answered.
Respond(r, code, payload) ==
    [Idle EXCEPT !.pc = "done", !.route = r.route, !.header = r.header,
                 !.user = r.user, !.status = code, !.resp = payload,
                 !.storeCalls = r.storeCalls, !.vendorCalls = r.vendorCalls]

StoreCall(r) == [r EXCEPT !.storeCalls = @ + 1]
VendorCall(r) == [r EXCEPT !.vendorCalls = @ + 1]

Free(s) == req[s].pc \in {"idle", "done"}

\* A new request takes the first free slot.
Receive(s, route, h, tid, body) ==
    /\ Free(s)
    /\ \A t \in Slots : t < s => ~Free(t)
    /\ served < MaxRequests
    /\ served' = served + 1
    /\ req' = [req EXCEPT ![s] = NewRequest(route, h, tid, body)]
    /\ UNCHANGED <<users, tracks, nextTrackId, published, now, trackLikes,
                   vendorTasks, users0, writeErrors>>

TidsOf(route) == IF route \in {R_PUBLISH, R_LIKE, R_DELETE, R_TASK}
                 THEN TrackIds ELSE {0}
BodiesOf(route) == IF route = R_PATCH THEN PatchBodies ELSE {EmptyBody}

ReceiveFrom(routes, headers) ==
    \E s \in Slots, route \in routes, h \in headers :
        \E tid \in TidsOf(route), body \in BodiesOf(route) :
            Receive(s, route, h, tid, body)

\* No store write is made.
StoreUnchanged == UNCHANGED <<users, tracks, nextTrackId, published, now,
                              trackLikes, writeErrors>>

-----------------------------------------------------------------------------
(* authenticateUser *)

AuthNoToken(s) ==
    /\ req[s].pc = "auth"
    /\ NoToken(req[s].header)
    /\ req' = [req EXCEPT ![s] = Respond(@, 401, [error |-> "No token provided"])]
    /\ StoreUnchanged /\ UNCHANGED <<vendorTasks, served, users0>>

\* getUser answers with an error or without a user
AuthInvalid(s) ==
    /\ req[s].pc = "auth"
    /\ ~NoToken(req[s].header)
    /\ GetUser(Token(req[s].header)) = {}
    /\ req' = [req EXCEPT ![s] = Respond(@, 401, [error |-> "Invalid token"])]
    /\ StoreUnchanged /\ UNCHANGED <<vendorTasks, served, users0>>

\* the call to the identity provider throws
AuthFailed(s) ==
    /\ req[s].pc = "auth"
    /\ ~NoToken(req[s].header)
    /\ req' = [req EXCEPT ![s] =
                  Respond(@, 401, [error |-> "Authentication failed"])]
    /\ StoreUnchanged /\ UNCHANGED <<vendorTasks, served, users0>>

AuthOk(s) ==
    /\ req[s].pc = "auth"
    /\ ~NoToken(req[s].header)
    /\ \E u \in GetUser(Token(req[s].header)) :
          req' = [req EXCEPT ![s].user = u, ![s].pc = EntryPc(req[s].route)]
    /\ StoreUnchanged /\ UNCHANGED <<vendorTasks, served, users0>>

Authenticate(s) ==
    \/ AuthNoToken(s)
    \/ AuthInvalid(s)
    \/ AuthFailed(s)
    \/ AuthOk(s)

-----------------------------------------------------------------------------
(* POST /api/generate-music *)

\* supabase.from('users').select('*').eq('id', id).single(), then the daily
\* limit and the credit checks, which run without a further await.
GenReadUser(s) ==
    LET r == StoreCall(req[s])
        u == req[s].user
    IN  /\ req[s].pc = "gen_read"
        /\ \/ req' = [req EXCEPT ![s] =
                         Respond(r, 404, [error |-> "User profile not found"])]
           \/ /\ u \in DOMAIN users
              /\ LET row == users[u]
                 IN  req' = [req EXCEPT ![s] =
                        IF DailyLimitReached(row)
                        THEN Respond(r, 403,
                                 [error |-> "Daily limit reached",
                                  limit |-> LookupLimit(row.current_plan).val,
                                  used |-> row.used_points_today])
                        ELSE IF NoCredits(row)
                        THEN Respond(r, 403, [error |-> "No credits remaining"])
                        ELSE [r EXCEPT !.pc = "gen_vendor", !.read = row]]
        /\ StoreUnchanged /\ UNCHANGED <<vendorTasks, served, users0>>

\* The values the deduction writes: computed from the row read at the start.
Deduction(row) ==
    [total_points |-> row.total_points - 1,
     used_points_today |-> row.used_points_today + 1,
     total_generations |-> row.total_generations + 1]

\* (faulty variant: the credit is deducted before the vendor answers, so a failed
\* vendor call is charged too)
GenVendorChargesOnError(s) ==
    LET r == VendorCall(req[s])
        u == req[s].user
    IN  /\ req[s].pc = "gen_vendor"
        /\ u \in DOMAIN users
        /\ users' = [users EXCEPT ![u] = ApplyUpdate(@, Deduction(r.read))]
        /\ \/ /\ req' = [req EXCEPT ![s] =
                            Respond(r, 500, [error |-> "Generation failed"])]
              /\ UNCHANGED vendorTasks
           \/ /\ vendorTasks' = Append(vendorTasks, req[s].user)
              /\ req' = [req EXCEPT ![s] =
                            [r EXCEPT !.pc = "gen_deduct",
                                      !.taskId = Len(vendorTasks) + 1]]
        /\ UNCHANGED <<tracks, nextTrackId, published, now, trackLikes,
                       writeErrors, served, users0>>

\* axios.post(.../api/v1/generate): it throws (vendor error, timeout), or it
\* answers without a task id, or it answers with the id of a new task.
GenVendor(s) ==
    LET r == VendorCall(req[s])
    IN  /\ req[s].pc = "gen_vendor"
        /\ \/ /\ req' = [req EXCEPT ![s] =
                            Respond(r, 500, [error |-> "Generation failed"])]
              /\ UNCHANGED vendorTasks
           \/ /\ vendorTasks' = Append(vendorTasks, req[s].user)
              /\ req' = [req EXCEPT ![s] =
                            [r EXCEPT !.pc = "gen_deduct",
                                      !.taskId = Len(vendorTasks) + 1]]
        /\ StoreUnchanged /\ UNCHANGED <<served, users0>>

\* (faulty variant: the balance read, not yet decremented)
RemainingCreditsNoDecrement(row) == row.total_points

\* remaining_credits: user.total_points - 1
RemainingCredits(row) == row.total_points - 1

\* supabase.from('users').update({...}).eq('id', id); its error is logged
\* only; then res.json({success, task_id, remaining_credits}).
GenDeduct(s) ==
    LET r == StoreCall(req[s])
        u == req[s].user
    IN  /\ req[s].pc = "gen_deduct"
        /\ \/ /\ u \in DOMAIN users
              /\ users' = [users EXCEPT ![u] =
                              ApplyUpdate(@, Deduction(r.read))]
              /\ UNCHANGED writeErrors
           \/ /\ writeErrors' = TRUE
              /\ UNCHANGED users
        /\ req' = [req EXCEPT ![s] =
                      Respond(r, 200,
                          [success |-> TRUE, task_id |-> r.taskId,
                           remaining_credits |-> RemainingCredits(r.read)])]
        /\ UNCHANGED <<tracks, nextTrackId, published, now, trackLikes,
                       vendorTasks, served, users0>>

-----------------------------------------------------------------------------
(* GET /api/task/:taskId *)

TaskVendor(s) ==
    LET r == VendorCall(req[s])
    IN  /\ req[s].pc = "task_vendor"
        /\ \/ req' = [req EXCEPT ![s] =
                         Respond(r, 500, [error |-> "Failed to check status"])]
           \/ \E st \in {"PENDING", "SUCCESS"} :
                 req' = [req EXCEPT ![s] =
                            Respond(r, 200, [taskId |-> r.tid, status |-> st])]
        /\ StoreUnchanged /\ UNCHANGED <<vendorTasks, served, users0>>

-----------------------------------------------------------------------------
(* GET /api/profile and PATCH /api/profile *)

ProfileRead(s) ==
    LET r == StoreCall(req[s])
        u == req[s].user
    IN  /\ req[s].pc = "profile_read"
        /\ \/ req' = [req EXCEPT ![s] =
                         Respond(r, 500, [error |-> "Failed to fetch profile"])]
           \/ /\ u \in DOMAIN users
              /\ req' = [req EXCEPT ![s] = Respond(r, 200, [user |-> users[u]])]
        /\ StoreUnchanged /\ UNCHANGED <<vendorTasks, served, users0>>

\* supabase.from('users').update(updates).eq('id', id).select().single()
PatchUpdate(s) ==
    LET r == StoreCall(req[s])
        u == req[s].user
        updates == Strip(req[s].body)
    IN  /\ req[s].pc = "patch_update"
        /\ \/ /\ req' = [req EXCEPT ![s] =
                         Respond(r, 500, [error |-> "Failed to update profile"])]
              /\ writeErrors' = TRUE
              /\ UNCHANGED users
           \/ /\ u \in DOMAIN users
              /\ UpdateAccepted(updates)
              /\ users' = [users EXCEPT ![u] = ApplyUpdate(@, updates)]
              /\ UNCHANGED writeErrors
              /\ req' = [req EXCEPT ![s] = Respond(r, 200, [user |-> users'[u]])]
        /\ UNCHANGED <<tracks, nextTrackId, published, now, trackLikes,
                       vendorTasks, served, users0>>

-----------------------------------------------------------------------------
(* Tracks: POST /api/tracks, GET /api/tracks *)

TrackRow(owner) == [user_id |-> owner, is_published |-> FALSE, likes |-> 0]

\* supabase.from('tracks').insert({...}).select().single()
SaveInsert(s) ==
    LET r == StoreCall(req[s])
    IN  /\ req[s].pc = "save_insert"
        /\ \/ /\ req' = [req EXCEPT ![s] =
                            Respond(r, 500, [error |-> "Failed to save track"])]
              /\ writeErrors' = TRUE
              /\ UNCHANGED <<tracks, nextTrackId>>
           \/ /\ nextTrackId <= MaxTracks
              /\ UNCHANGED writeErrors
              /\ tracks' = [t \in DOMAIN tracks \cup {nextTrackId} |->
                               IF t = nextTrackId THEN TrackRow(r.user)
                               ELSE tracks[t]]
              /\ nextTrackId' = nextTrackId + 1
              /\ req' = [req EXCEPT ![s] =
                            Respond(r, 200, [success |-> TRUE,
                                             track |-> nextTrackId])]
        /\ UNCHANGED <<users, published, now, trackLikes, vendorTasks, served,
                       users0>>

\* supabase.from('tracks').select('*').eq('user_id', id).order(...)
ListRead(s) ==
    LET r == StoreCall(req[s])
    IN  /\ req[s].pc = "list_read"
        /\ \/ req' = [req EXCEPT ![s] =
                         Respond(r, 500, [error |-> "Failed to fetch tracks"])]
           \/ req' = [req EXCEPT ![s] =
                         Respond(r, 200,
                             [tracks |-> {t \in DOMAIN tracks :
                                             tracks[t].user_id = r.user}])]
        /\ StoreUnchanged /\ UNCHANGED <<vendorTasks, served, users0>>

-----------------------------------------------------------------------------
(* GET /api/feed *)

FEED_LIMIT == 25

\* The row of rows with the latest published_at.
Latest(rows) ==
    CHOOSE x \in rows : \A y \in rows : y.published_at <= x.published_at

\* .order('published_at', { ascending: false })
RECURSIVE OrderDesc(_)
OrderDesc(rows) ==
    IF rows = {} THEN <<>>
    ELSE <<Latest(rows)>> \o OrderDesc(rows \ {Latest(rows)})

\* .limit(n)
Limit(rows, n) == SubSeq(rows, 1, IF Len(rows) < n THEN Len(rows) ELSE n)

Range(f) == {f[i] : i \in DOMAIN f}

\* The feed query on published_tracks.
FeedQuery(table) == Limit(OrderDesc(Range(table)), FEED_LIMIT)

FeedRead(s) ==
    LET r == StoreCall(req[s])
    IN  /\ req[s].pc = "feed_read"
        /\ \/ req' = [req EXCEPT ![s] =
                         Respond(r, 500, [error |-> "Failed to fetch feed"])]
           \/ req' = [req EXCEPT ![s] =
                         Respond(r, 200, [tracks |-> FeedQuery(published)])]
        /\ StoreUnchanged /\ UNCHANGED <<vendorTasks, served, users0>>

-----------------------------------------------------------------------------
(* Ownership, POST /api/tracks/:trackId/publish, DELETE /api/tracks/:trackId *)

\* (faulty variant: a track that was not found passes the check)
NotYourTrackIgnoresMissing(found, r) ==
    found /\ r.tid \in DOMAIN tracks /\ tracks[r.tid].user_id # r.user

\* track?.user_id !== req.user!.id, where track is null when the read found
\* no row or failed
NotYourTrack(found, r) ==
    ~found \/ r.tid \notin DOMAIN tracks \/ tracks[r.tid].user_id # r.user

\* supabase.from('tracks').select('user_id').eq('id', trackId).single()
OwnerRead(s, at, next) ==
    LET r == StoreCall(req[s])
    IN  /\ req[s].pc = at
        /\ \E found \in BOOLEAN :
              req' = [req EXCEPT ![s] =
                         IF NotYourTrack(found, r)
                         THEN Respond(r, 403, [error |-> "Not your track"])
                         ELSE [r EXCEPT !.pc = next]]
        /\ StoreUnchanged /\ UNCHANGED <<vendorTasks, served, users0>>

PubRead(s) == OwnerRead(s, "pub_read", "pub_update")

\* supabase.from('tracks').update({ is_published: true }).eq('id', trackId)
\* The result is not looked at.
PubUpdate(s) ==
    LET r == StoreCall(req[s])
    IN  /\ req[s].pc = "pub_update"
        /\ \/ /\ r.tid \in DOMAIN tracks
              /\ tracks' = [tracks EXCEPT ![r.tid].is_published = TRUE]
              /\ UNCHANGED writeErrors
           \/ /\ writeErrors' = TRUE
              /\ UNCHANGED tracks
        /\ req' = [req EXCEPT ![s] = [r EXCEPT !.pc = "pub_insert"]]
        /\ UNCHANGED <<users, nextTrackId, published, now, trackLikes,
                       vendorTasks, served, users0>>

\* supabase.from('published_tracks').insert({ track_id, user_id })
\* The result is not looked at.
PubInsert(s) ==
    LET r == StoreCall(req[s])
    IN  /\ req[s].pc = "pub_insert"
        /\ \/ /\ r.tid \in DOMAIN tracks
              /\ Len(published) < MaxPublished
              /\ published' = Append(published,
                                  [id |-> now, track_id |-> r.tid,
                                   user_id |-> r.user, published_at |-> now])
              /\ now' = now + 1
              /\ UNCHANGED writeErrors
           \/ /\ writeErrors' = TRUE
              /\ UNCHANGED <<published, now>>
        /\ req' = [req EXCEPT ![s] = Respond(r, 200, [success |-> TRUE])]
        /\ UNCHANGED <<users, tracks, nextTrackId, trackLikes, vendorTasks,
                       served, users0>>

DelRead(s) == OwnerRead(s, "del_read", "del_delete")

WithoutTrack(seq, tid) ==
    LET Keep(row) == row.track_id # tid IN SelectSeq(seq, Keep)

\* supabase.from('tracks').delete().eq('id', trackId); the rows of
\* published_tracks and track_likes that refer to the track go with it.
\* The result is not looked at.
DelDelete(s) ==
    LET r == StoreCall(req[s])
    IN  /\ req[s].pc = "del_delete"
        /\ \/ /\ r.tid \in DOMAIN tracks
              /\ tracks' = [t \in DOMAIN tracks \ {r.tid} |-> tracks[t]]
              /\ published' = WithoutTrack(published, r.tid)
              /\ trackLikes' = {l \in trackLikes : l[2] # r.tid}
              /\ UNCHANGED writeErrors
           \/ /\ writeErrors' = TRUE
              /\ UNCHANGED <<tracks, published, trackLikes>>
        /\ req' = [req EXCEPT ![s] = Respond(r, 200, [success |-> TRUE])]
        /\ UNCHANGED <<users, nextTrackId, now, vendorTasks, served, users0>>

-----------------------------------------------------------------------------
(* POST /api/tracks/:trackId/like *)

\* supabase.from('track_likes').select('*').eq(...).eq(...).single();
\* existing is null when there is no row or the read failed.
LikeRead(s) ==
    LET r == StoreCall(req[s])
    IN  /\ req[s].pc = "like_read"
        /\ \/ /\ <<r.user, r.tid>> \in trackLikes
              /\ req' = [req EXCEPT ![s] = [r EXCEPT !.pc = "like_delete"]]
           \/ req' = [req EXCEPT ![s] = [r EXCEPT !.pc = "like_insert"]]
        /\ StoreUnchanged /\ UNCHANGED <<vendorTasks, served, users0>>

\* supabase.from('track_likes').delete().eq(...).eq(...)
LikeDelete(s) ==
    LET r == StoreCall(req[s])
    IN  /\ req[s].pc = "like_delete"
        /\ \/ /\ trackLikes' = trackLikes \ {<<r.user, r.tid>>}
              /\ UNCHANGED writeErrors
           \/ /\ writeErrors' = TRUE
              /\ UNCHANGED trackLikes
        /\ req' = [req EXCEPT ![s] = [r EXCEPT !.pc = "like_dec"]]
        /\ UNCHANGED <<users, tracks, nextTrackId, published, now,
                       vendorTasks, served, users0>>

\* supabase.from('track_likes').insert({ user_id, track_id })
LikeInsert(s) ==
    LET r == StoreCall(req[s])
    IN  /\ req[s].pc = "like_insert"
        /\ \/ /\ r.tid \in DOMAIN tracks
              /\ trackLikes' = trackLikes \cup {<<r.user, r.tid>>}
              /\ UNCHANGED writeErrors
           \/ /\ writeErrors' = TRUE
              /\ UNCHANGED trackLikes
        /\ req' = [req EXCEPT ![s] = [r EXCEPT !.pc = "like_inc"]]
        /\ UNCHANGED <<users, tracks, nextTrackId, published, now,
                       vendorTasks, served, users0>>

\* supabase.rpc('decrement_likes' | 'increment_likes', { track_id }), then
\* res.json({ liked })
LikeRpc(s, at, delta, liked) ==
    LET r == StoreCall(req[s])
    IN  /\ req[s].pc = at
        /\ \/ /\ r.tid \in DOMAIN tracks
              /\ tracks' = [tracks EXCEPT ![r.tid].likes = @ + delta]
              /\ UNCHANGED writeErrors
           \/ /\ writeErrors' = TRUE
              /\ UNCHANGED tracks
        /\ req' = [req EXCEPT ![s] = Respond(r, 200, [liked |-> liked])]
        /\ UNCHANGED <<users, nextTrackId, published, now, trackLikes,
                       vendorTasks, served, users0>>

LikeDec(s) == LikeRpc(s, "like_dec", -1, FALSE)
LikeInc(s) == LikeRpc(s, "like_inc", 1, TRUE)

-----------------------------------------------------------------------------
(* Initial states and specifications *)

Tables(u) ==
    /\ users = u
    /\ tracks = [t \in {1} |-> TrackRow("u1")]
    /\ nextTrackId = 2
    /\ published = <<>>
    /\ now = 1
    /\ trackLikes = {}
    /\ vendorTasks = <<>>
    /\ req = [s \in Slots |-> Idle]
    /\ served = 0
    /\ users0 = u
    /\ writeErrors = FALSE

BaseUsers == [u \in UserIds |-> IF u = "u1" THEN UserRow("free", 1, 0)
                                 ELSE UserRow("pro", 2, 0)]

Init == Tables(BaseUsers)

GenSteps(s) ==
    \/ GenReadUser(s)
    \/ GenVendor(s)
    \/ GenDeduct(s)
    \/ ProfileRead(s)
    \/ PatchUpdate(s)

TrackSteps(s) ==
    \/ SaveInsert(s)
    \/ ListRead(s)
    \/ FeedRead(s)
    \/ PubRead(s)
    \/ PubUpdate(s)
    \/ PubInsert(s)
    \/ DelRead(s)
    \/ DelDelete(s)
    \/ LikeRead(s)
    \/ LikeDelete(s)
    \/ LikeInsert(s)
    \/ LikeDec(s)
    \/ LikeInc(s)

\* Every route under every kind of header, one request at a time.
ReceiveAny == (\A s \in Slots : Free(s)) /\ ReceiveFrom(Routes, Headers)

Next ==
    \/ ReceiveAny
    \/ \E s \in Slots : Authenticate(s)
    \/ \E s \in Slots : GenSteps(s)
    \/ \E s \in Slots : TrackSteps(s)
    \/ \E s \in Slots : TaskVendor(s)

Spec == Init /\ [][Next]_vars

\* The generation and profile routes alone, under authenticated traffic, from
\* user rows at and around the thresholds of the checks.
GenConfigs == {UserRow("free", 1, 0), UserRow("free", 3, 2),
               UserRow("free", 0, 0), UserRow("free", -1, 1),
               UserRow("starter", 3, 10), UserRow("pro", 0, 25),
               UserRow("unlimited", 3, 100), UserRow("enterprise", 3, 2),
               UserRow("constructor", 3, 2)}

GenUsers ==
    {[u \in UserIds |-> IF u = "u1" THEN c ELSE UserRow("pro", 2, 0)] :
        c \in GenConfigs}
    \cup {[u \in {"u1"} |-> UserRow("free", 1, 0)]}

InitGen == \E u \in GenUsers : Tables(u)

ReceiveGen == ReceiveFrom(GenRoutes, ValidHeaders)

NextGen ==
    \/ ReceiveGen
    \/ \E s \in Slots : AuthOk(s)
    \/ \E s \in Slots : GenSteps(s)

SpecGen == InitGen /\ [][NextGen]_vars

\* The track, like and feed routes alone, under authenticated traffic.
ReceiveTrack == ReceiveFrom(TrackRoutes, ValidHeaders)

NextTracks ==
    \/ ReceiveTrack
    \/ \E s \in Slots : AuthOk(s)
    \/ \E s \in Slots : TrackSteps(s)

SpecTracks == Init /\ [][NextTracks]_vars

-----------------------------------------------------------------------------
(* Properties *)

\* Request s takes the step.
Moves(s) == req'[s] # req[s]

\* The request in slot s has been answered with this status on this route.
Answered(s, route, code) ==
    req[s].pc = "done" /\ req[s].route = route /\ req[s].status = code

\* The plan -> daily limit table as documented: free=2, starter=10, pro=25,
\* unlimited=100, any other plan 2.
PlanLimit(plan) ==
    CASE plan = "free" -> 2
      [] plan = "starter" -> 10
      [] plan = "pro" -> 25
      [] plan = "unlimited" -> 100
      [] OTHER -> 2

\* Number of generation tasks created at the vendor for user u.
TasksOf(u) == Cardinality({i \in DOMAIN vendorTasks : vendorTasks[i] = u})

\* C1 as stated: a request to any /api/ route without a well-formed bearer
\* header is answered 401, and no store call and no vendor call is made for it.
C1_AnyApiRoute ==
    \A s \in Slots :
        (req[s].pc # "idle" /\ NoToken(req[s].header)) =>
            /\ req[s].storeCalls = 0
            /\ req[s].vendorCalls = 0
            /\ req[s].pc = "done" => req[s].status = 401

\* C1 amended: the same for every /api/ route but the public GET /api/feed.
C1_GuardedRoutes ==
    \A s \in Slots :
        (req[s].pc # "idle" /\ req[s].route # R_FEED /\ NoToken(req[s].header)) =>
            /\ req[s].storeCalls = 0
            /\ req[s].vendorCalls = 0
            /\ req[s].pc \in {"auth", "done"}
            /\ req[s].pc = "done" => req[s].status = 401

\* A request with a header of another scheme was answered 401.
C1_Witness ==
    \E s \in Slots :
        /\ Answered(s, R_GENERATE, 401)
        /\ req[s].header.present /\ NoToken(req[s].header)
        /\ req[s].resp.error = "No token provided"

\* C2 as stated: a generation request that reads a user row whose
\* used_points_today equals the daily limit of its plan is answered 403 with
\* that limit and the used count, calls no vendor and writes no user row.
C2_AtLimitRefused ==
    [][\A s \in Slots :
        (/\ req[s].pc = "gen_read" /\ Moves(s)
         /\ req'[s].status # 404
         /\ users[req[s].user].used_points_today =
                PlanLimit(users[req[s].user].current_plan))
        => /\ req'[s].pc = "done"
           /\ req'[s].status = 403
           /\ req'[s].resp = [error |-> "Daily limit reached",
                              limit |-> PlanLimit(users[req[s].user].current_plan),
                              used |-> users[req[s].user].used_points_today]
           /\ req'[s].vendorCalls = 0
           /\ users' = users]_vars

\* C3: a generation request that reads a user row with total_points <= 0 is
\* answered 403, calls no vendor and writes no user row, whatever the plan and
\* the used count.
C3_NoCreditRefused ==
    [][\A s \in Slots :
        (/\ req[s].pc = "gen_read" /\ Moves(s)
         /\ req'[s].status # 404
         /\ users[req[s].user].total_points <= 0)
        => /\ req'[s].pc = "done"
           /\ req'[s].status = 403
           /\ req'[s].vendorCalls = 0
           /\ vendorTasks' = vendorTasks
           /\ users' = users]_vars

\* A row with no credit and no use today was refused for its credit.
C3_Witness ==
    \E s \in Slots :
        /\ Answered(s, R_GENERATE, 403)
        /\ req[s].resp.error = "No credits remaining"
        /\ users[req[s].user].total_points <= 0
        /\ users[req[s].user].used_points_today = 0

\* C4: once the vendor has returned a task id to a generation request, the
\* request is answered with success, that task id and the total_points it read
\* at its start minus 1, whether or not the deduction is written and whatever
\* the user row holds by then.
C4_SuccessCarriesTaskAndCredits ==
    [][\A s \in Slots :
        /\ (req[s].pc = "gen_vendor" /\ Moves(s) /\ vendorTasks' # vendorTasks)
           => /\ req'[s].pc = "gen_deduct"
              /\ req'[s].taskId = Len(vendorTasks')
              /\ req'[s].read = req[s].read
        /\ (req[s].pc = "gen_deduct" /\ Moves(s))
           => /\ req'[s].pc = "done"
              /\ req'[s].status = 200
              /\ req'[s].resp.success
              /\ req'[s].resp.task_id = req[s].taskId
              /\ req'[s].resp.remaining_credits = req[s].read.total_points - 1]_vars

\* A success whose deduction was not written: the balance stored differs from
\* the one reported.
C4_Witness ==
    \E s \in Slots :
        /\ Answered(s, R_GENERATE, 200)
        /\ req[s].resp.task_id \in DOMAIN vendorTasks
        /\ writeErrors
        /\ users[req[s].user].total_points = req[s].resp.remaining_credits + 1

\* C5 as stated: each like toggle flips the presence of the (user, track) row
\* of track_likes, and the liked value answered is the row's presence after it.
C5_ToggleFlipsPresence ==
    [][\A s \in Slots :
        LET pair == <<req[s].user, req[s].tid>>
        IN  /\ (req[s].pc \in {"like_insert", "like_delete"} /\ Moves(s))
               => (pair \in trackLikes') # (pair \in trackLikes)
            /\ (req[s].pc \in {"like_inc", "like_dec"} /\ Moves(s))
               => req'[s].resp.liked = (pair \in trackLikes')]_vars

\* C6: publish or delete of a track that does not exist or belongs to another
\* user is answered 403, and tracks and published_tracks are left as they are.
C6_NotOwnerRefused ==
    [][\A s \in Slots :
        (/\ req[s].pc \in {"pub_read", "del_read"} /\ Moves(s)
         /\ \/ req[s].tid \notin DOMAIN tracks
            \/ tracks[req[s].tid].user_id # req[s].user)
        => /\ req'[s].pc = "done"
           /\ req'[s].status = 403
           /\ tracks' = tracks
           /\ published' = published]_vars

\* u2 was refused on a track of u1, which is still there and unpublished.
C6_Witness ==
    \E s \in Slots :
        /\ req[s].pc = "done" /\ req[s].route \in {R_PUBLISH, R_DELETE}
        /\ req[s].status = 403
        /\ req[s].user = "u2"
        /\ 1 \in DOMAIN tracks /\ tracks[1].user_id = "u1"
        /\ ~tracks[1].is_published /\ published = <<>>

\* C7 as stated: the feed answered has at most 25 rows, in descending order of
\* published_at, each of a track whose is_published flag is set.
C7_FeedOnlyPublished ==
    [][\A s \in Slots :
        (req[s].pc = "feed_read" /\ Moves(s) /\ req'[s].status = 200)
        => LET rows == req'[s].resp.tracks
           IN  /\ Len(rows) <= 25
               /\ \A i \in 1..Len(rows) - 1 :
                      rows[i].published_at >= rows[i + 1].published_at
               /\ \A i \in 1..Len(rows) :
                      /\ rows[i].track_id \in DOMAIN tracks
                      /\ tracks[rows[i].track_id].is_published]_vars

\* The caller's row keeps its protected fields, and no other row changes.
PatchFrame(u) ==
    /\ DOMAIN users' = DOMAIN users
    /\ \A v \in DOMAIN users : v # u => users'[v] = users[v]
    /\ u \in DOMAIN users =>
           \A f \in DOMAIN users[u] \cap ProtectedFields :
               users'[u][f] = users[u][f]

\* Every field of the body that is not protected is in the caller's row.
PatchApplied(u, body) ==
    /\ u \in DOMAIN users'
    /\ \A f \in DOMAIN body \ ProtectedFields :
           f \in DOMAIN users'[u] /\ users'[u][f] = body[f]

\* C8 as stated: every PATCH /api/profile leaves id, email, total_points and
\* used_points_today of the caller as stored, applies every other field of the
\* body to the caller's row, and changes no other row.
C8_PatchAlwaysApplies ==
    [][\A s \in Slots :
        (req[s].pc = "patch_update" /\ Moves(s))
        => /\ PatchFrame(req[s].user)
           /\ PatchApplied(req[s].user, req[s].body)]_vars

\* C8 amended: the protected fields and the other rows are never changed; the
\* other fields of the body are applied when the store accepts the update
\* (200), and nothing is changed when it does not (500).
C8_PatchAppliesWhenAccepted ==
    [][\A s \in Slots :
        (req[s].pc = "patch_update" /\ Moves(s))
        => /\ PatchFrame(req[s].user)
           /\ req'[s].pc = "done" /\ req'[s].status \in {200, 500}
           /\ req'[s].status = 200 =>
                  /\ PatchApplied(req[s].user, req[s].body)
                  /\ \A f \in DOMAIN users[req[s].user] \ DOMAIN req[s].body :
                         users'[req[s].user][f] = users[req[s].user][f]
           /\ req'[s].status = 500 => users' = users]_vars

\* A body carrying total_points = 99 was applied: the name changed, the
\* balance did not.
C8_Witness ==
    \E s \in Slots :
        /\ Answered(s, R_PATCH, 200)
        /\ users[req[s].user].display_name = "trinity"
        /\ users[req[s].user].total_points # 99
        /\ users[req[s].user] = req[s].resp.user

\* C9: a step that lowers a stored total_points is the deduction of a
\* generation request holding the id of a task the vendor created for that
\* user, and a step of a generation request that is not answered 200 leaves
\* the users table as it is.
C9_DebitOnlyAfterTask ==
    [][/\ \A u \in DOMAIN users :
            (u \in DOMAIN users'
             /\ users'[u].total_points < users[u].total_points)
            => \E s \in Slots :
                  /\ req[s].pc = "gen_deduct" /\ Moves(s)
                  /\ req[s].user = u
                  /\ req[s].taskId \in DOMAIN vendorTasks
                  /\ vendorTasks[req[s].taskId] = u
                  /\ req'[s].status = 200
       /\ \A s \in Slots :
            (/\ req[s].pc \in {"gen_read", "gen_vendor", "gen_deduct"}
             /\ Moves(s)
             /\ req'[s].status # 200)
            => users' = users]_vars

\* A vendor failure answered 500 beside a deduction that was written.
C9_Witness ==
    /\ \E s \in Slots :
          /\ Answered(s, R_GENERATE, 500)
          /\ req[s].vendorCalls = 1
          /\ users[req[s].user] = users0[req[s].user]
    /\ \E s \in Slots :
          /\ Answered(s, R_GENERATE, 200)
          /\ users[req[s].user].total_points =
                 users0[req[s].user].total_points - 1

\* C10 as stated: for a user whose plan has not changed and who started the
\* day with used_points_today = 0, while every store write has succeeded, the
\* tasks created for the user exceed neither the plan's daily limit nor the
\* user's initial total_points.
C10_TasksWithinQuota ==
    \A u \in DOMAIN users0 :
        (/\ users0[u].used_points_today = 0
         /\ users[u].current_plan = users0[u].current_plan
         /\ ~writeErrors)
        => /\ TasksOf(u) <= PlanLimit(users0[u].current_plan)
           /\ TasksOf(u) <= users0[u].total_points

\* C11 as stated: no request of a user raises the daily limit that the
\* generation route applies to that user, and PATCH /api/profile does not
\* change the plan the limit is resolved from.
C11_PlanNotChangeable ==
    [][/\ \A u \in DOMAIN users :
            u \in DOMAIN users' =>
                PlanLimit(users'[u].current_plan)
                    <= PlanLimit(users[u].current_plan)
       /\ \A s \in Slots :
            (req[s].pc = "patch_update" /\ Moves(s)
             /\ req[s].user \in DOMAIN users)
            => users'[req[s].user].current_plan
                   = users[req[s].user].current_plan]_vars

====
